---- MODULE Spec2Model ----
(***************************************************************************)
(* Model of the DustIQ unification engine (src/data_pipeline/             *)
(* data_unifier.py): DustIQDataUnifier.unify_all_sources and the helpers  *)
(* it calls.  A pandas DataFrame is a record                              *)
(*     [cols |-> sequence of column names,                                *)
(*      rows |-> sequence of rows, each a function column -> cell,        *)
(*      tz   |-> TRUE iff the time column is timezone-aware]              *)
(* Timestamps are integers counting minutes; coordinates are integers     *)
(* counting 1/32 degree; a numeric cell is an exact fraction [n, d] in    *)
(* lowest terms and the missing value (NaN) is [n |-> 0, d |-> 0].        *)
(***************************************************************************)
EXTENDS Integers, Sequences, FiniteSets, TLC

(***************************************************************************)
(* Bounds of the model.                                                    *)
(***************************************************************************)
\* Largest total number of observations over the four sources.
MaxObs == 2
\* The later of the two clock readings of a run, in minutes.
LateClock == 90
\* Largest clock reading _build_hourly_scaffold is called at on its own.
MaxClock == 120
\* Largest number of rows of a table _finalize_dataset is called with on
\* its own.
MaxFinRows == 2
\* Coordinates snapped on their own run over -MaxCoord..MaxCoord, and the
\* resolutions over 1..MaxRes (both in coordinate units).
MaxCoord == 4
MaxRes == 4
\* Largest number of records a reshape is called with on its own.
MaxReshapeObs == 3
\* Largest number of rows of a table _aggregate_spatial is called with on
\* its own.
MaxAggRows == 2
\* Largest number of files in a batch handed to an extractor on its own.
MaxFiles == 2
\* Largest number of data variables in a dataset handed to
\* _extract_tempo_variable.
MaxVars == 2
\* Largest number of grid points of a field handed to _netcdf_to_dataframe.
MaxPoints == 3
\* Largest number of OpenAQ locations of a fetch, and of hourly results of
\* the sensor of a location.
\* Largest number of observations in the sources of a run of main.
MaxMainObs == 1
MaxLocations == 2
\* Largest number of rows of a table handed to _fill_missing_values on its
\* own.
MaxFillRows == 2
MaxReadings == 2

(***************************************************************************)
(* Program constants.                                                      *)
(***************************************************************************)
\* timedelta(days=7) in _build_hourly_scaffold
WindowDays == 7
\* hours of a day / minutes of an hour (freq='H', replace(minute=0))
HoursPerDay == 24
MinutesPerHour == 60
\* empirical AOD -> PM factors of _process_viirs_data
PM25Factor == 35
PM10Factor == 60
\* the size in bytes below which _process_tempo_data skips a file
MinFileBytes == 5000
\* the fill value that _netcdf_to_dataframe removes
FillValue == -999
\* DataConfig.GRID_RESOLUTION (0.125 degrees), in coordinate units of
\* 1/32 degree
GRID_RESOLUTION == 4

\* DataConfig.TARGET_COLUMNS
TARGET_COLUMNS ==
  << "time", "PM2.5", "PM10", "O3", "NO2", "SO2", "CO",
     "temperature", "humidity", "wind_speed" >>

\* the six pollutant columns the finalizer's no_data_flag looks at
POLLUTANTS == << "PM2.5", "PM10", "O3", "NO2", "SO2", "CO" >>

\* the join key of _merge_all_sources
MERGE_KEYS == << "time", "lat_grid", "lon_grid" >>

\* Variable names in the order pandas sorts pivoted column labels
\* (lexicographic on code points).
VarOrder ==
  << "AEROSOL", "CO", "HCHO", "NO2", "O3", "PM10", "PM10_satellite",
     "PM2.5", "PM2.5_satellite", "SO2", "humidity", "temperature",
     "wind_speed" >>

(***************************************************************************)
(* Cells: exact fractions, NaN, and the data_source tag.                   *)
(***************************************************************************)
Abs(x) == IF x < 0 THEN -x ELSE x

RECURSIVE GCD(_, _)
GCD(a, b) == IF b = 0 THEN a ELSE GCD(b, a % b)

NaN == [n |-> 0, d |-> 0]

\* NaT, the timestamp pd.to_datetime(errors='coerce') gives what it cannot
\* read: a number below every time of the model
NaT == -1000000

Num(k) == [n |-> k, d |-> 1]

Frac(n, d) == LET g == GCD(Abs(n), d) IN [n |-> n \div g, d |-> d \div g]

IsNa(v) == v = NaN

NotNa(v) == v # NaN

Tag(s) == [src |-> s]

RAdd(a, b) == Frac(a.n * b.d + b.n * a.d, a.d * b.d)

RECURSIVE RSum(_)
RSum(vs) == IF vs = <<>> THEN Num(0) ELSE RAdd(Head(vs), RSum(Tail(vs)))

\* a mean that counts a missing value as zero
MeanWithZeros(vs) ==
  LET present == SelectSeq(vs, NotNa)
      s == RSum(present)
  IN  IF present = <<>> THEN NaN ELSE Frac(s.n, s.d * Len(vs))

\* aggfunc='mean': the arithmetic mean of the values that are present,
\* NaN when none is.
Mean(vs) ==
  LET present == SelectSeq(vs, NotNa)
      s == RSum(present)
  IN  IF present = <<>> THEN NaN ELSE Frac(s.n, s.d * Len(present))

(***************************************************************************)
(* Sequences and tables.                                                   *)
(***************************************************************************)
Range(s) == { s[i] : i \in DOMAIN s }

\* A row and a sequence of rows, written so that TLC computes them once
\* instead of at every use (both are the identity).
Row(f) == f @@ << >>
Rows(rs) == rs \o << >>

\* pd.DataFrame()
EmptyDF == [cols |-> <<>>, rows |-> <<>>, tz |-> FALSE]

\* DataFrame.empty: any axis of length 0
IsEmpty(df) == Len(df.cols) = 0 \/ Len(df.rows) = 0

HasCol(df, c) == c \in Range(df.cols)

\* lexicographic order on (time, lat_grid, lon_grid) keys
KeyLeq(a, b) ==
  \/ a[1] < b[1]
  \/ a[1] = b[1] /\ a[2] < b[2]
  \/ a[1] = b[1] /\ a[2] = b[2] /\ a[3] <= b[3]

RECURSIVE SortKeys(_)
SortKeys(S) ==
  IF S = {} THEN <<>>
  ELSE LET m == CHOOSE k \in S : \A j \in S : KeyLeq(k, j)
       IN  <<m>> \o SortKeys(S \ {m})

RECURSIVE SortInts(_)
SortInts(S) ==
  IF S = {} THEN <<>>
  ELSE LET m == CHOOSE k \in S : \A j \in S : k <= j
       IN  <<m>> \o SortInts(S \ {m})

RowKey(r) == << r["time"], r["lat_grid"], r["lon_grid"] >>

(***************************************************************************)
(* Wide Reshaper: pivot_table(index=[time, lat_grid, lon_grid],            *)
(* columns=variable, values=value, aggfunc='mean').reset_index(), followed *)
(* by the data_source column.  obs is a sequence of long-form records      *)
(* [time, lat_grid, lon_grid, variable, value].                            *)
(***************************************************************************)
PivotTable(obs, source, aware, aggfunc) ==
  LET keys == SortKeys({ << o.time, o.lat_grid, o.lon_grid >> : o \in Range(obs) })
      present(v) == \E o \in Range(obs) : o.variable = v
      vars == SelectSeq(VarOrder, present)
      cols == MERGE_KEYS \o vars \o << "data_source" >>
      at(k, v) ==
        LET hit(o) == << o.time, o.lat_grid, o.lon_grid >> = k /\ o.variable = v
            sel == SelectSeq(obs, hit)
            vals == [ i \in 1..Len(sel) |-> Num(sel[i].value) ]
        IN  IF aggfunc = "mean" \/ vals = << >> THEN Mean(vals)
            ELSE IF aggfunc = "sum" THEN RSum(vals)
            ELSE vals[1]
      row(k) ==
        Row([ c \in Range(cols) |->
               IF c = "time" THEN k[1]
               ELSE IF c = "lat_grid" THEN k[2]
               ELSE IF c = "lon_grid" THEN k[3]
               ELSE IF c = "data_source" THEN Tag(source)
               ELSE at(k, c) ])
  IN  [ cols |-> cols,
        rows |-> Rows([ i \in 1..Len(keys) |-> row(keys[i]) ]),
        tz   |-> aware ]

\* pivot_table(..., aggfunc='sum')
PivotSum(obs, source, aware) == PivotTable(obs, source, aware, "sum")

\* pivot_table(..., aggfunc='first')
PivotFirst(obs, source, aware) == PivotTable(obs, source, aware, "first")

\* pivot_table(..., aggfunc='mean')
PivotMean(obs, source, aware) == PivotTable(obs, source, aware, "mean")

(***************************************************************************)
(* DataFrame.merge(right, on=keys, how=how, suffixes=(lsfx, rsfx)), for    *)
(* how = "left" (every left row is kept) and how = "inner".                *)
(***************************************************************************)
MergeFrames(left, right, keys, lsfx, rsfx, how) ==
  LET isKey(c) == c \in Range(keys)
      overlap == { c \in Range(left.cols) : ~isKey(c) /\ HasCol(right, c) }
      lname(c) == IF c \in overlap THEN c \o lsfx ELSE c
      rname(c) == IF c \in overlap THEN c \o rsfx ELSE c
      notKey(c) == ~isKey(c)
      rcols == SelectSeq(right.cols, notKey)
      lnew == Rows([ i \in 1..Len(left.cols) |-> lname(left.cols[i]) ])
      rnew == Rows([ i \in 1..Len(rcols) |-> rname(rcols[i]) ])
      \* result column -> the column of left (of right) it comes from
      lorig == Row([ c \in Range(lnew) |-> CHOOSE o \in Range(left.cols) : lname(o) = c ])
      rorig == Row([ c \in Range(rnew) |-> CHOOSE o \in Range(rcols) : rname(o) = c ])
      lpart(l) == IF overlap = {} \/ lsfx = "" THEN l
                  ELSE Row([ c \in Range(lnew) |-> l[lorig[c]] ])
      rpart(r) == Row([ c \in Range(rnew) |-> r[rorig[c]] ])
      missing == Row([ c \in Range(rnew) |-> NaN ])
      same(l, r) == \A k \in Range(keys) : l[k] = r[k]
      matches(l) ==
        LET m(r) == same(l, r)
            rs == SelectSeq(right.rows, m)
        IN  IF rs = <<>>
            THEN IF how = "left" THEN << lpart(l) @@ missing >> ELSE << >>
            ELSE Rows([ j \in 1..Len(rs) |-> lpart(l) @@ rpart(rs[j]) ])
      n == Len(left.rows)
      all == Rows([ i \in 1..n |-> matches(left.rows[i]) ])
      \* the (left row, match) pairs in the order of the result
      pairs == { p \in (1..n) \X (1..(Len(right.rows) + 1)) : p[2] <= Len(all[p[1]]) }
      ahead(q, p) == q[1] < p[1] \/ (q[1] = p[1] /\ q[2] < p[2])
      place(p) == Cardinality({ q \in pairs : ahead(q, p) }) + 1
      atPlace(k) == CHOOSE p \in pairs : place(p) = k
      oneEach == \A i \in 1..n : Len(all[i]) = 1
  IN  [ cols |-> lnew \o rnew,
        rows |-> IF oneEach
                 THEN Rows([ i \in 1..n |-> all[i][1] ])
                 ELSE Rows([ k \in 1..Cardinality(pairs) |->
                               all[atPlace(k)[1]][atPlace(k)[2]] ]),
        tz   |-> left.tz ]

\* merge(..., how='inner'): what a join that drops unmatched rows gives
InnerJoin(left, right, keys, lsfx, rsfx) ==
  MergeFrames(left, right, keys, lsfx, rsfx, "inner")

\* merge(..., how='left')
LeftJoin(left, right, keys, lsfx, rsfx) ==
  MergeFrames(left, right, keys, lsfx, rsfx, "left")

\* pandas refuses to merge a timezone-aware time key with a naive one
\* (ValueError)
MergeRaises(left, right) == left.tz # right.tz


(***************************************************************************)
(* Grid Normalizer: (coord / GRID_RESOLUTION).round() * GRID_RESOLUTION,   *)
(* where round() rounds a half to the even neighbour.                      *)
(***************************************************************************)
\* a rounding that always goes down
RoundDown(c, r) == c \div r

RoundHalfEven(c, r) ==
  LET q == c \div r
      m == c % r
  IN  IF 2 * m < r THEN q
      ELSE IF 2 * m > r THEN q + 1
      ELSE IF q % 2 = 0 THEN q ELSE q + 1

\* a snap that keeps the cell index and forgets to scale it back
SnapAtIndex(c, r) == RoundHalfEven(c, r)

\* (coord / r).round() * r for a resolution r
SnapAt(c, r) == RoundHalfEven(c, r) * r

Snap(c) == SnapAt(c, GRID_RESOLUTION)

\* the cell of a (latitude, longitude) pair
SnapCell(p, r) == << SnapAt(p[1], r), SnapAt(p[2], r) >>

\* _regrid_to_common_grid on long-form records [time, latitude, longitude,
\* variable, value]
Regrid(obs) ==
  [ i \in 1..Len(obs) |->
      [ time     |-> obs[i].time,
        lat_grid |-> Snap(obs[i].latitude),
        lon_grid |-> Snap(obs[i].longitude),
        variable |-> obs[i].variable,
        value    |-> obs[i].value ] ]

(***************************************************************************)
(* Source extractors, from the records read from the files of a source.    *)
(***************************************************************************)
\* _process_ground_data: the OpenAQ file already carries lat_grid and
\* lon_grid; aware tells whether its datetime column is timezone-aware.
ProcessGround(obs, aware) ==
  IF obs = <<>> THEN EmptyDF ELSE PivotMean(obs, "ground", aware)

\* _process_tempo_data
ProcessTempo(obs) ==
  IF obs = <<>> THEN EmptyDF ELSE PivotMean(Regrid(obs), "tempo", FALSE)

\* _process_weather_data
ProcessWeather(obs) ==
  IF obs = <<>> THEN EmptyDF ELSE PivotMean(Regrid(obs), "weather", FALSE)

\* _process_viirs_data: each AOD value gives a PM2.5 and a PM10 estimate
ProcessViirs(obs) ==
  LET est(o, name, factor) ==
        [ time |-> o.time, latitude |-> o.latitude, longitude |-> o.longitude,
          variable |-> name, value |-> o.value * factor ]
      both == [ i \in 1..(2 * Len(obs)) |->
                 IF i % 2 = 1
                 THEN est(obs[(i + 1) \div 2], "PM2.5_satellite", PM25Factor)
                 ELSE est(obs[i \div 2], "PM10_satellite", PM10Factor) ]
  IN  IF obs = <<>> THEN EmptyDF ELSE PivotMean(Regrid(both), "viirs", FALSE)

(***************************************************************************)
(* Cross-Source Merger: _merge_all_sources.                                *)
(***************************************************************************)
\* a base selection that prefers TEMPO to ground
MergeBaseTempoFirst(g, t) ==
  IF ~IsEmpty(t) THEN t ELSE IF ~IsEmpty(g) THEN g ELSE EmptyDF

\* a base selection whose first test lost its "not"
MergeBaseNegated(g, t) ==
  IF IsEmpty(g) THEN g ELSE IF ~IsEmpty(t) THEN t ELSE EmptyDF

\* the join base: ground when non-empty, else TEMPO, else nothing
MergeBase(g, t) ==
  IF ~IsEmpty(g) THEN g ELSE IF ~IsEmpty(t) THEN t ELSE EmptyDF

\* 'tempo' not in merged.get('data_source', ''): a membership test on a
\* Series looks at its index labels (0, 1, ...), never at its values, and
\* on the default '' it is a substring test; both say "not in".
TempoNotInBase(m) == TRUE

\* a merge whose TEMPO join suffixes the base side: the unsuffixed name goes
\* to the TEMPO column
MergeAllSourcesOverwriting(g, t, w, v) ==
  LET base == MergeBase(g, t)
      withWeather ==
        IF ~IsEmpty(w) THEN LeftJoin(base, w, MERGE_KEYS, "", "_weather")
        ELSE base
      withTempo ==
        IF ~IsEmpty(t) /\ TempoNotInBase(withWeather)
        THEN LeftJoin(withWeather, t, MERGE_KEYS, "_ground", "")
        ELSE withWeather
      withViirs ==
        IF ~IsEmpty(v) THEN LeftJoin(withTempo, v, MERGE_KEYS, "", "_viirs")
        ELSE withTempo
  IN  IF IsEmpty(base) THEN EmptyDF ELSE withViirs

MergeAllSources(g, t, w, v) ==
  LET base == MergeBase(g, t)
      withWeather ==
        IF ~IsEmpty(w) THEN LeftJoin(base, w, MERGE_KEYS, "", "_weather")
        ELSE base
      withTempo ==
        IF ~IsEmpty(t) /\ TempoNotInBase(withWeather)
        THEN LeftJoin(withWeather, t, MERGE_KEYS, "", "_satellite")
        ELSE withWeather
      withViirs ==
        IF ~IsEmpty(v) THEN LeftJoin(withTempo, v, MERGE_KEYS, "", "_viirs")
        ELSE withTempo
  IN  IF IsEmpty(base) THEN EmptyDF ELSE withViirs

\* a join of _merge_all_sources meets time keys of two kinds
MergeAllRaises(g, t, w, v) ==
  LET base == MergeBase(g, t)
  IN  /\ ~IsEmpty(base)
      /\ \/ ~IsEmpty(w) /\ MergeRaises(base, w)
         \/ ~IsEmpty(t) /\ MergeRaises(base, t)
         \/ ~IsEmpty(v) /\ MergeRaises(base, v)

(***************************************************************************)
(* Temporal Scaffold Builder: _build_hourly_scaffold at clock reading now. *)
(***************************************************************************)
WindowHours == WindowDays * HoursPerDay

\* a window end that keeps the minutes of the clock
WindowEndUntruncated(now) == now

\* utcnow().replace(minute=0, second=0, microsecond=0)
WindowEnd(now) == now - (now % MinutesPerHour)

WindowStart(now) == WindowEnd(now) - WindowHours * MinutesPerHour

\* a scaffold whose date_range runs up to the window end itself
BuildHourlyScaffoldInclusive(now) ==
  LET start == WindowStart(now)
      count == ((WindowEnd(now) - start) \div MinutesPerHour) + 1
      blank == Row([ c \in Range(Tail(TARGET_COLUMNS)) |-> NaN ])
  IN  [ cols |-> TARGET_COLUMNS,
        rows |-> Rows([ i \in 1..count |->
                    ("time" :> (start + (i - 1) * MinutesPerHour)) @@ blank ]),
        tz   |-> FALSE ]

BuildHourlyScaffold(now) ==
  LET start == WindowStart(now)
      last  == WindowEnd(now) - MinutesPerHour
      count == ((last - start) \div MinutesPerHour) + 1
      \* scaffold[col] = np.nan for col in TARGET_COLUMNS[1:]
      blank == Row([ c \in Range(Tail(TARGET_COLUMNS)) |-> NaN ])
  IN  [ cols |-> TARGET_COLUMNS,
        rows |-> Rows([ i \in 1..count |->
                    ("time" :> (start + (i - 1) * MinutesPerHour)) @@ blank ]),
        tz   |-> FALSE ]

(***************************************************************************)
(* Spatial Aggregator: _aggregate_spatial.                                 *)
(***************************************************************************)
Available(df) ==
  LET has(c) == HasCol(df, c) IN SelectSeq(Tail(TARGET_COLUMNS), has)

\* a fallback step that renames nothing
RenameNothing(df) == df

\* the rename of the aerosol estimates, tried when no canonical column is
\* present
RenameFallback(df) ==
  LET new(c) == IF c = "PM2.5_satellite" THEN "PM2.5"
                ELSE IF c = "PM10_satellite" THEN "PM10" ELSE c
      old(c) == CHOOSE o \in Range(df.cols) : new(o) = c
      cols == [ i \in 1..Len(df.cols) |-> new(df.cols[i]) ]
  IN  [ cols |-> cols,
        rows |-> Rows([ i \in 1..Len(df.rows) |->
                    Row([ c \in Range(cols) |-> df.rows[i][old(c)] ]) ]),
        tz   |-> df.tz ]

AggInput(df) == IF Available(df) = <<>> THEN RenameFallback(df) ELSE df

\* df.dropna(subset=['time']) after pd.to_datetime(errors='coerce')
DropNaT(df) ==
  [ cols |-> df.cols,
    rows |-> SelectSeq(df.rows, LAMBDA r : r["time"] # NaT),
    tz   |-> df.tz ]

\* groupby('time').agg({col: 'mean'}).reset_index()
GroupMean(df) ==
  LET times == SortInts({ df.rows[i]["time"] : i \in 1..Len(df.rows) })
      cols == << "time" >> \o Available(df)
      at(t, c) ==
        LET hit(r) == r["time"] = t
            sel == SelectSeq(df.rows, hit)
        IN  Mean([ i \in 1..Len(sel) |-> sel[i][c] ])
  IN  [ cols |-> cols,
        rows |-> Rows([ i \in 1..Len(times) |->
                    Row([ c \in Range(cols) |->
                           IF c = "time" THEN times[i] ELSE at(times[i], c) ]) ]),
        tz   |-> df.tz ]

AggregateSpatial(df) ==
  IF IsEmpty(df) \/ ~HasCol(df, "time") THEN EmptyDF
  ELSE GroupMean(AggInput(DropNaT(df)))

\* agg() is handed an empty mapping
AggOfNothing(df) ==
  ~IsEmpty(df) /\ HasCol(df, "time") /\ Available(AggInput(df)) = <<>>

\* scaffold.merge(aggregated, on='time', how='left'): default suffixes
JoinScaffold(scaffold, aggregated) ==
  LeftJoin(scaffold, aggregated, << "time" >>, "_x", "_y")

(***************************************************************************)
(* Fallback Imputer and Finalizer.                                         *)
(***************************************************************************)
\* the (canonical, fallback) pairs of _fill_missing_values, in its order
FILL_PAIRS ==
  << << "PM2.5", "PM2.5_satellite" >>, << "PM10", "PM10_satellite" >>,
     << "O3", "O3_satellite" >>, << "NO2", "NO2_satellite" >> >>

\* df[col] = df[col].fillna(df[sat]) with df[col] absent: KeyError
FillRaises(df) ==
  \E i \in DOMAIN FILL_PAIRS :
    HasCol(df, FILL_PAIRS[i][2]) /\ ~HasCol(df, FILL_PAIRS[i][1])

\* a fill that takes the satellite value wherever there is one
FillPreferringSatellite(df) ==
  LET pairs == { p \in Range(FILL_PAIRS) : HasCol(df, p[2]) }
      sat == Row([ c \in { p[1] : p \in pairs } |->
                    (CHOOSE p \in pairs : p[1] = c)[2] ])
      fill(r) ==
        Row([ c \in DOMAIN sat |-> IF NotNa(r[sat[c]]) THEN r[sat[c]] ELSE r[c] ]) @@ r
  IN  [ cols |-> df.cols,
        rows |-> IF pairs = {} THEN df.rows
                 ELSE Rows([ i \in 1..Len(df.rows) |-> fill(df.rows[i]) ]),
        tz   |-> df.tz ]

FillMissingValues(df) ==
  LET pairs == { p \in Range(FILL_PAIRS) : HasCol(df, p[2]) }
      sat == Row([ c \in { p[1] : p \in pairs } |->
                    (CHOOSE p \in pairs : p[1] = c)[2] ])
      fill(r) ==
        Row([ c \in DOMAIN sat |-> IF IsNa(r[c]) THEN r[sat[c]] ELSE r[c] ]) @@ r
  IN  [ cols |-> df.cols,
        rows |-> IF pairs = {} THEN df.rows
                 ELSE Rows([ i \in 1..Len(df.rows) |-> fill(df.rows[i]) ]),
        tz   |-> df.tz ]

\* sort_values('time', ascending=False)
SortByTimeDescending(rows) ==
  LET n == Len(rows)
      before(j, i) ==
        \/ rows[j]["time"] > rows[i]["time"]
        \/ rows[j]["time"] = rows[i]["time"] /\ j < i
      place == Rows([ i \in 1..n |-> Cardinality({ j \in 1..n : before(j, i) }) + 1 ])
  IN  Rows([ p \in 1..n |-> rows[CHOOSE i \in 1..n : place[i] = p] ])

\* sort_values('time'), rows of equal time keeping their order: row i goes
\* to the place that counts the rows ordered before it
IsTimeSorted(rows) ==
  \A i \in 1..(Len(rows) - 1) : rows[i]["time"] <= rows[i + 1]["time"]

SortByTime(rows) ==
  LET n == Len(rows)
      before(j, i) ==
        \/ rows[j]["time"] < rows[i]["time"]
        \/ rows[j]["time"] = rows[i]["time"] /\ j < i
      place == Rows([ i \in 1..n |-> Cardinality({ j \in 1..n : before(j, i) }) + 1 ])
  IN  IF IsTimeSorted(rows) THEN rows
      ELSE Rows([ p \in 1..n |-> rows[CHOOSE i \in 1..n : place[i] = p] ])

\* a flag computed over every target column, weather included
NoDataFlagAllTargets(r) ==
  \A i \in DOMAIN Tail(TARGET_COLUMNS) : IsNa(r[Tail(TARGET_COLUMNS)[i]])

\* final_data['no_data_flag'] = final_data[POLLUTANTS].isna().all(axis=1)
NoDataFlag(r) == \A i \in DOMAIN POLLUTANTS : IsNa(r[POLLUTANTS[i]])

FINAL_COLUMNS == TARGET_COLUMNS \o << "no_data_flag" >>

\* _finalize_dataset on a table that has a time column
FinalizeDataset(df) ==
  LET sorted == SortByTime(df.rows)
      fdf == FillMissingValues([ cols |-> df.cols, rows |-> sorted, tz |-> df.tz ])
      have == { c \in Range(TARGET_COLUMNS) : HasCol(fdf, c) }
      \* final_data[col] = np.nan for the target columns the table lacks
      absent == Row([ c \in Range(TARGET_COLUMNS) \ have |-> NaN ])
      pick(r) == Row([ c \in have |-> r[c] ]) @@ absent
      flagged(r) == LET p == pick(r) IN ("no_data_flag" :> NoDataFlag(p)) @@ p
  IN  IF IsEmpty(df) THEN [ cols |-> TARGET_COLUMNS, rows |-> <<>>, tz |-> FALSE ]
      ELSE [ cols |-> FINAL_COLUMNS,
             rows |-> SortByTime(Rows([ i \in 1..Len(sorted) |-> flagged(fdf.rows[i]) ])),
             tz   |-> df.tz ]

(***************************************************************************)
(* Inputs of a run: the clock and the records held by the files of the     *)
(* four source categories (a missing category is an empty sequence).       *)
(***************************************************************************)
SeqsUpTo(S, n) == UNION { [ 1..k -> S ] : k \in 0..n }

\* two clock readings: on the hour, and past the hour some hours later
Clocks == { 0, LateClock }

\* the first hour of the window of clock 0 and the hour that ends it
ObsTimes == { WindowStart(0), WindowEnd(0) }

\* cell centres, and raw coordinates one unit off a cell centre
GridLons == { 0, GRID_RESOLUTION }
RawLons == { 1, GRID_RESOLUTION + 1 }

\* records of the ground file: readings of value 3
GroundObs ==
  [ time : ObsTimes, lat_grid : {0}, lon_grid : GridLons,
    variable : { "PM2.5", "NO2" }, value : {3} ]

RawObs(times, names, values) ==
  [ time : times, latitude : {1}, longitude : RawLons,
    variable : names, value : values ]

\* records of the TEMPO files: NO2 retrievals of value 1 or 2, HCHO of 1
TempoObs ==
  RawObs(ObsTimes, {"NO2"}, {1, 2}) \cup RawObs(ObsTimes, {"HCHO"}, {1})

WeatherObs == RawObs(ObsTimes, {"temperature"}, {1})

\* AOD fields of the VIIRS files
ViirsObs == RawObs({WindowEnd(0)}, {"AOD"}, {1})

VARIABLES
  now,              \* datetime.utcnow() of the run, in minutes
  sources,          \* data_sources: GROUND, TEMPO, WEATHER, VIIRS records
  ground_aware,     \* the ground file's datetime column is timezone-aware
  ground_data, tempo_data, weather_data, viirs_data,
  unified_grid, scaffold, aggregated,
  result,           \* the table unify_all_sources returns
  pc,               \* "start", then "done" (returned) or "raised"
  arg,              \* what a helper is called with on its own
  ret               \* what that helper returns

vars ==
  << now, sources, ground_aware, ground_data, tempo_data, weather_data,
     viirs_data, unified_grid, scaffold, aggregated, result, pc, arg, ret >>

NoSources == [ GROUND |-> <<>>, TEMPO |-> <<>>, WEATHER |-> <<>>, VIIRS |-> <<>> ]

\* nothing computed yet
Fresh ==
  /\ ground_data = EmptyDF
  /\ tempo_data = EmptyDF
  /\ weather_data = EmptyDF
  /\ viirs_data = EmptyDF
  /\ unified_grid = EmptyDF
  /\ scaffold = EmptyDF
  /\ aggregated = EmptyDF
  /\ result = EmptyDF
  /\ arg = EmptyDF
  /\ ret = EmptyDF
  /\ pc = "start"

Init ==
  /\ now \in Clocks
  /\ \E g \in SeqsUpTo(GroundObs, MaxObs) :
     \E t \in SeqsUpTo(TempoObs, MaxObs - Len(g)) :
     \E w \in SeqsUpTo(WeatherObs, MaxObs - Len(g) - Len(t)) :
     \E v \in SeqsUpTo(ViirsObs, MaxObs - Len(g) - Len(t) - Len(w)) :
       sources = [ GROUND |-> g, TEMPO |-> t, WEATHER |-> w, VIIRS |-> v ]
  /\ ground_aware \in IF sources.GROUND = <<>> THEN {FALSE} ELSE BOOLEAN
  /\ Fresh

(***************************************************************************)
(* unify_all_sources, lines 29-70.  A run stops at "merge" (a join of      *)
(* _merge_all_sources raises), "empty" (the scaffold is returned), "agg"   *)
(* (agg() of no column raises, in the pandas releases where it does) or    *)
(* "join" (the scaffold join raises); otherwise the joined table is        *)
(* finalized, and either _fill_missing_values raises or the finalized      *)
(* table is returned.                                                      *)
(***************************************************************************)
UnifyAllSources ==
  /\ pc = "start"
  /\ ground_data' = ProcessGround(sources.GROUND, ground_aware)
  /\ tempo_data' = ProcessTempo(sources.TEMPO)
  /\ weather_data' = ProcessWeather(sources.WEATHER)
  /\ viirs_data' = ProcessViirs(sources.VIIRS)
  /\ \E mergeRaises \in { MergeAllRaises(ground_data', tempo_data', weather_data', viirs_data') } :
       /\ unified_grid' =
            IF mergeRaises THEN EmptyDF
            ELSE MergeAllSources(ground_data', tempo_data', weather_data', viirs_data')
       /\ scaffold' = IF mergeRaises THEN EmptyDF ELSE BuildHourlyScaffold(now)
       /\ \E aggRaises \in IF ~mergeRaises /\ AggOfNothing(unified_grid') THEN BOOLEAN ELSE {FALSE} :
            /\ aggregated' =
                 IF mergeRaises \/ aggRaises THEN EmptyDF ELSE AggregateSpatial(unified_grid')
            /\ \E stop \in { IF mergeRaises THEN "merge"
                             ELSE IF IsEmpty(unified_grid') THEN "empty"
                             ELSE IF aggRaises THEN "agg"
                             ELSE IF MergeRaises(scaffold', aggregated') THEN "join"
                             ELSE "joined" } :
                 IF stop = "joined"
                 THEN \E full \in { JoinScaffold(scaffold', aggregated') } :
                        /\ result' = IF FillRaises(full) THEN EmptyDF ELSE FinalizeDataset(full)
                        /\ pc' = IF FillRaises(full) THEN "raised" ELSE "done"
                 ELSE /\ result' = IF stop = "empty" THEN scaffold' ELSE EmptyDF
                      /\ pc' = IF stop = "empty" THEN "done" ELSE "raised"
  /\ UNCHANGED << now, sources, ground_aware, arg, ret >>

Next == UnifyAllSources

Spec == Init /\ [][Next]_vars

(***************************************************************************)
(* _build_hourly_scaffold on its own, at every clock reading of two hours. *)
(***************************************************************************)
InitScaffold ==
  /\ now \in 0..MaxClock
  /\ sources = NoSources
  /\ ground_aware = FALSE
  /\ Fresh

CallBuildHourlyScaffold ==
  /\ pc = "start"
  /\ scaffold' = BuildHourlyScaffold(now)
  /\ pc' = "done"
  /\ UNCHANGED << now, sources, ground_aware, ground_data, tempo_data,
                  weather_data, viirs_data, unified_grid, aggregated, result,
                  arg, ret >>

NextScaffold == CallBuildHourlyScaffold

SpecScaffold == InitScaffold /\ [][NextScaffold]_vars

(***************************************************************************)
(* _finalize_dataset on its own, called with a table that has a time       *)
(* column, any of the columns of FinCols, and up to MaxFinRows rows.       *)
(***************************************************************************)
FinCols == << "PM2.5", "NO2", "temperature", "PM2.5_satellite" >>

FinTimes == { 0, MinutesPerHour }

\* a canonical column holds NaN or 1, the fallback column NaN or 2
FinCells(c) == IF c = "PM2.5_satellite" THEN { NaN, Num(2) } ELSE { NaN, Num(1) }

FinRows(cs) ==
  { ("time" :> t) @@ f :
      t \in FinTimes, f \in { g \in [ cs -> { NaN, Num(1), Num(2) } ] :
                                \A c \in cs : g[c] \in FinCells(c) } }

FinTable(cs, rs) ==
  [ cols |-> << "time" >> \o SelectSeq(FinCols, LAMBDA c : c \in cs),
    rows |-> rs, tz |-> FALSE ]

InitFinalize ==
  /\ now = 0
  /\ sources = NoSources
  /\ ground_aware = FALSE
  /\ ground_data = EmptyDF
  /\ tempo_data = EmptyDF
  /\ weather_data = EmptyDF
  /\ viirs_data = EmptyDF
  /\ unified_grid = EmptyDF
  /\ scaffold = EmptyDF
  /\ aggregated = EmptyDF
  /\ result = EmptyDF
  /\ \E cs \in SUBSET Range(FinCols) :
     \E k \in 1..MaxFinRows :
     \E rs \in [ 1..k -> FinRows(cs) ] :
       arg = FinTable(cs, rs)
  /\ ret = EmptyDF
  /\ pc = "start"

CallFinalizeDataset ==
  /\ pc = "start"
  /\ IF FillRaises(arg)
     THEN ret' = EmptyDF /\ pc' = "raised"
     ELSE ret' = FinalizeDataset(arg) /\ pc' = "done"
  /\ UNCHANGED << now, sources, ground_aware, ground_data, tempo_data,
                  weather_data, viirs_data, unified_grid, scaffold, aggregated,
                  result, arg >>

NextFinalize == CallFinalizeDataset

SpecFinalize == InitFinalize /\ [][NextFinalize]_vars

(***************************************************************************)
(* The grid snapping on its own: two observations of one hour are snapped  *)
(* with a resolution r, and the cells they get are snapped again.          *)
(***************************************************************************)
Coords == (-MaxCoord)..MaxCoord

InitSnap ==
  /\ now = 0
  /\ sources = NoSources
  /\ ground_aware = FALSE
  /\ ground_data = EmptyDF
  /\ tempo_data = EmptyDF
  /\ weather_data = EmptyDF
  /\ viirs_data = EmptyDF
  /\ unified_grid = EmptyDF
  /\ scaffold = EmptyDF
  /\ aggregated = EmptyDF
  /\ result = EmptyDF
  /\ \E r \in 1..MaxRes :
     \E a \in Coords \X Coords :
     \E b \in Coords \X Coords :
       arg = [ r |-> r, a |-> a, b |-> b ]
  /\ ret = EmptyDF
  /\ pc = "start"

\* _regrid_to_common_grid on the two observations
SnapObservations ==
  /\ pc = "start"
  /\ ret' = [ a |-> SnapCell(arg.a, arg.r), b |-> SnapCell(arg.b, arg.r) ]
  /\ pc' = "snapped"
  /\ UNCHANGED << now, sources, ground_aware, ground_data, tempo_data,
                  weather_data, viirs_data, unified_grid, scaffold, aggregated,
                  result, arg >>

\* _regrid_to_common_grid on the cells it returned
SnapAgain ==
  /\ pc = "snapped"
  /\ result' = [ a |-> SnapCell(ret.a, arg.r), b |-> SnapCell(ret.b, arg.r) ]
  /\ pc' = "done"
  /\ UNCHANGED << now, sources, ground_aware, ground_data, tempo_data,
                  weather_data, viirs_data, unified_grid, scaffold, aggregated,
                  arg, ret >>

NextSnap == SnapObservations \/ SnapAgain

SpecSnap == InitSnap /\ [][NextSnap]_vars

(***************************************************************************)
(* The reshape of an extractor on its own (_process_tempo_data and         *)
(* _process_weather_data from the records read): once on a list of         *)
(* records, once on the same records in another order.                     *)
(***************************************************************************)
ReshapeObs(source) ==
  IF source = "tempo" THEN RawObs({0}, {"NO2", "HCHO"}, {1, 2})
  ELSE RawObs({0}, {"temperature", "humidity"}, {1, 2})

\* the records of obs in the order perm
Shuffled(obs, perm) == [ i \in 1..Len(obs) |-> obs[perm[i]] ]

Reshape(source, obs) ==
  IF source = "tempo" THEN ProcessTempo(obs) ELSE ProcessWeather(obs)

InitReshape ==
  /\ now = 0
  /\ sources = NoSources
  /\ ground_aware = FALSE
  /\ ground_data = EmptyDF
  /\ tempo_data = EmptyDF
  /\ weather_data = EmptyDF
  /\ viirs_data = EmptyDF
  /\ unified_grid = EmptyDF
  /\ scaffold = EmptyDF
  /\ aggregated = EmptyDF
  /\ result = EmptyDF
  /\ \E source \in { "tempo", "weather" } :
     \E k \in 1..MaxReshapeObs :
     \E obs \in [ 1..k -> ReshapeObs(source) ] :
     \E perm \in Permutations(1..k) :
       arg = [ source |-> source, obs |-> obs, perm |-> perm ]
  /\ ret = EmptyDF
  /\ pc = "start"

CallReshape ==
  /\ pc = "start"
  /\ ret' = Reshape(arg.source, arg.obs)
  /\ pc' = "reshaped"
  /\ UNCHANGED << now, sources, ground_aware, ground_data, tempo_data,
                  weather_data, viirs_data, unified_grid, scaffold, aggregated,
                  result, arg >>

CallReshapeShuffled ==
  /\ pc = "reshaped"
  /\ result' = Reshape(arg.source, Shuffled(arg.obs, arg.perm))
  /\ pc' = "done"
  /\ UNCHANGED << now, sources, ground_aware, ground_data, tempo_data,
                  weather_data, viirs_data, unified_grid, scaffold, aggregated,
                  arg, ret >>

NextReshape == CallReshape \/ CallReshapeShuffled

SpecReshape == InitReshape /\ [][NextReshape]_vars

(***************************************************************************)
(* _aggregate_spatial on its own, called with a grid table of up to        *)
(* MaxAggRows cells: any of the columns of AggCols, times that may be NaT, *)
(* cells that may be missing.                                              *)
(***************************************************************************)
AggCols == << "NO2", "temperature", "PM2.5_satellite", "PM10_satellite" >>

AggTimes == { 0, MinutesPerHour, NaT }

AggCells(c) == IF c = "NO2" THEN { NaN, Num(1), Num(2) } ELSE { NaN, Num(1) }

\* the rows a cell of longitude lon can hold
AggRows(cs, lon) ==
  { [ time |-> t, lat_grid |-> 0, lon_grid |-> lon ] @@ f :
      t \in AggTimes, f \in { g \in [ cs -> { NaN, Num(1), Num(2) } ] :
                                \A c \in cs : g[c] \in AggCells(c) } }

AggTable(cs, rs) ==
  [ cols |-> MERGE_KEYS \o SelectSeq(AggCols, LAMBDA c : c \in cs),
    rows |-> rs, tz |-> FALSE ]

InitAggregate ==
  /\ now = 0
  /\ sources = NoSources
  /\ ground_aware = FALSE
  /\ ground_data = EmptyDF
  /\ tempo_data = EmptyDF
  /\ weather_data = EmptyDF
  /\ viirs_data = EmptyDF
  /\ unified_grid = EmptyDF
  /\ scaffold = EmptyDF
  /\ aggregated = EmptyDF
  /\ result = EmptyDF
  /\ \E cs \in SUBSET Range(AggCols) :
     \E k \in 1..MaxAggRows :
     \E rs \in [ 1..k -> UNION { AggRows(cs, i * GRID_RESOLUTION) : i \in 1..k } ] :
       /\ \A i \in 1..k : rs[i]["lon_grid"] = i * GRID_RESOLUTION
       /\ arg = AggTable(cs, rs)
  /\ ret = EmptyDF
  /\ pc = "start"

CallAggregateSpatial ==
  /\ pc = "start"
  /\ \E aggRaises \in IF AggOfNothing(arg) THEN BOOLEAN ELSE {FALSE} :
       IF aggRaises
       THEN ret' = EmptyDF /\ pc' = "raised"
       ELSE ret' = AggregateSpatial(arg) /\ pc' = "done"
  /\ UNCHANGED << now, sources, ground_aware, ground_data, tempo_data,
                  weather_data, viirs_data, unified_grid, scaffold, aggregated,
                  result, arg >>

NextAggregate == CallAggregateSpatial

SpecAggregate == InitAggregate /\ [][NextAggregate]_vars

(***************************************************************************)
(* The file loop of an extractor on its own (_process_tempo_data,          *)
(* _process_weather_data, _process_viirs_data).  A file is a record        *)
(*   [size |-> bytes, state |-> ..., obs |-> the observation it holds]     *)
(* whose state is "ok", "missing" (the path does not exist), "unreadable"  *)
(* (no engine opens it), "corrupt" (it opens, extraction raises) or        *)
(* "no_time" (it is read, its field has no time coordinate).               *)
(***************************************************************************)
FileStates == { "ok", "missing", "unreadable", "corrupt", "no_time" }

FileSizes == { MinFileBytes - 1, MinFileBytes }

\* the variable the files of a source hold
FileVariable(source) ==
  IF source = "tempo" THEN "NO2"
  ELSE IF source = "weather" THEN "temperature" ELSE "AOD"

\* one observation per file, on the hour or half past it
FileObs(source) ==
  [ time : { 0, MinutesPerHour \div 2 }, latitude : {1}, longitude : {1},
    variable : { FileVariable(source) }, value : { 1, 2 } ]

Files(source) == [ size : FileSizes, state : FileStates, obs : FileObs(source) ]

\* only _process_tempo_data looks at os.path.getsize
SkipsTinyFiles(source) == source = "tempo"

\* the files the loop tries to open: they exist and pass the size test of
\* the extractor, when it has one
Opened(source, files) ==
  { i \in 1..Len(files) :
      /\ files[i].state # "missing"
      /\ SkipsTinyFiles(source) => files[i].size >= MinFileBytes }

\* a loop that stops at the first file it cannot open or parse
RecordsUntilFailure(source, files) ==
  LET bad == { i \in Opened(source, files) :
                 files[i].state \in { "unreadable", "corrupt" } }
      keep(i) == /\ i \in Opened(source, files)
                 /\ files[i].state \in { "ok", "no_time" }
                 /\ \A j \in bad : i < j
      idx == SelectSeq([ i \in 1..Len(files) |-> i ], keep)
  IN  [ k \in 1..Len(idx) |->
          IF files[idx[k]].state = "no_time"
          THEN [ files[idx[k]].obs EXCEPT !.time = NaT ]
          ELSE files[idx[k]].obs ]

\* pd.concat of the frames the loop appended: the observation of every
\* opened file that was read, in file order; a file without a time
\* coordinate gives a record without a time (NaT after the concat)
Records(source, files) ==
  LET keep(i) == /\ i \in Opened(source, files)
                 /\ files[i].state \in { "ok", "no_time" }
      idx == SelectSeq([ i \in 1..Len(files) |-> i ], keep)
  IN  [ k \in 1..Len(idx) |->
          IF files[idx[k]].state = "no_time"
          THEN [ files[idx[k]].obs EXCEPT !.time = NaT ]
          ELSE files[idx[k]].obs ]

\* pivot_table(index=['time', ...]) on a frame without a time column:
\* KeyError, outside every try of the extractor
ExtractRaises(source, files) ==
  LET recs == Records(source, files)
  IN  recs # << >> /\ \A k \in 1..Len(recs) : recs[k].time = NaT

\* the wide table of the batch; the pivot drops the records whose key is
\* missing
ExtractTable(source, files) ==
  LET recs == SelectSeq(Records(source, files), LAMBDA o : o.time # NaT)
  IN  IF source = "tempo" THEN ProcessTempo(recs)
      ELSE IF source = "weather" THEN ProcessWeather(recs)
      ELSE ProcessViirs(recs)

InitExtract ==
  /\ now = 0
  /\ sources = NoSources
  /\ ground_aware = FALSE
  /\ ground_data = EmptyDF
  /\ tempo_data = EmptyDF
  /\ weather_data = EmptyDF
  /\ viirs_data = EmptyDF
  /\ unified_grid = EmptyDF
  /\ scaffold = EmptyDF
  /\ aggregated = EmptyDF
  /\ result = EmptyDF
  /\ \E source \in { "tempo", "weather", "viirs" } :
     \E k \in 0..MaxFiles :
     \E files \in [ 1..k -> Files(source) ] :
       arg = [ source |-> source, files |-> files ]
  /\ ret = EmptyDF
  /\ pc = "start"

\* ret.opened: the files the loop tried to open
CallExtractor ==
  /\ pc = "start"
  /\ IF ExtractRaises(arg.source, arg.files)
     THEN /\ ret' = [ table |-> EmptyDF, opened |-> Opened(arg.source, arg.files) ]
          /\ pc' = "raised"
     ELSE /\ ret' = [ table |-> ExtractTable(arg.source, arg.files),
                      opened |-> Opened(arg.source, arg.files) ]
          /\ pc' = "done"
  /\ UNCHANGED << now, sources, ground_aware, ground_data, tempo_data,
                  weather_data, viirs_data, unified_grid, scaffold, aggregated,
                  result, arg >>

NextExtract == CallExtractor

SpecExtract == InitExtract /\ [][NextExtract]_vars

(***************************************************************************)
(* _extract_tempo_variable on its own.  A dataset is the sequence of its   *)
(* data variables in file order, each                                      *)
(*   [name |-> ..., kind |-> the dtype kind, dims |-> its dimension names] *)
(***************************************************************************)
\* variable_maps.get(variable, [variable])
PossibleNames(variable) ==
  IF variable = "NO2"
  THEN << "NO2", "nitrogen_dioxide_tropospheric_column", "tropospheric_NO2_column" >>
  ELSE IF variable = "O3"
  THEN << "O3", "ozone_tropospheric_column", "tropospheric_O3_column" >>
  ELSE IF variable = "HCHO"
  THEN << "HCHO", "formaldehyde_tropospheric_column" >>
  ELSE IF variable = "AEROSOL"
  THEN << "AI", "aerosol_index", "uvai" >>
  ELSE << variable >>

\* 'lat' in d.lower(), on the dimension names of the model
LooksLikeLat(d) == d \in { "lat", "latitude", "Latitude" }

\* 'lon' in d.lower() or 'long' in d.lower()
LooksLikeLon(d) == d \in { "lon", "longitude", "Longitude" }

\* the test of the fallback loop on one data variable
HeuristicMatch(da) ==
  /\ da.kind \in { "f", "i" }
  /\ Len(da.dims) >= 2
  /\ \E k \in 1..Len(da.dims) : LooksLikeLat(da.dims[k])
  /\ \E k \in 1..Len(da.dims) : LooksLikeLon(da.dims[k])

\* the index in ds of the variable called name, 0 when there is none
IndexOf(ds, name) ==
  IF \E i \in 1..Len(ds) : ds[i].name = name
  THEN CHOOSE i \in 1..Len(ds) : ds[i].name = name
  ELSE 0

\* a lookup that returns the first variable of the file that carries any
\* alias, whatever the place of the alias in the list
ExtractFirstAliasInFile(ds, variable) ==
  LET names == PossibleNames(variable)
      hits == { i \in 1..Len(ds) : ds[i].name \in Range(names) }
      cand == { i \in 1..Len(ds) : HeuristicMatch(ds[i]) }
  IN  IF hits # {} THEN CHOOSE i \in hits : \A j \in hits : i <= j
      ELSE IF cand # {} THEN CHOOSE i \in cand : \A j \in cand : i <= j
      ELSE 0

\* _extract_tempo_variable: the index in ds of the variable returned, 0 for
\* None
ExtractTempoVariable(ds, variable) ==
  LET names == PossibleNames(variable)
      hits == { k \in 1..Len(names) : IndexOf(ds, names[k]) # 0 }
      cand == { i \in 1..Len(ds) : HeuristicMatch(ds[i]) }
  IN  IF hits # {}
      THEN IndexOf(ds, names[CHOOSE k \in hits : \A j \in hits : k <= j])
      ELSE IF cand # {} THEN CHOOSE i \in cand : \A j \in cand : i <= j
      ELSE 0

VarNames == { "NO2", "tropospheric_NO2_column", "SO2", "weight" }

VarKinds == { "f", "i", "u" }

VarDims ==
  { << "latitude", "longitude" >>, << "time", "lat", "lon" >>,
    << "latitude" >>, << "x", "y" >> }

DataVars == [ name : VarNames, kind : VarKinds, dims : VarDims ]

InitTempoVariable ==
  /\ now = 0
  /\ sources = NoSources
  /\ ground_aware = FALSE
  /\ ground_data = EmptyDF
  /\ tempo_data = EmptyDF
  /\ weather_data = EmptyDF
  /\ viirs_data = EmptyDF
  /\ unified_grid = EmptyDF
  /\ scaffold = EmptyDF
  /\ aggregated = EmptyDF
  /\ result = EmptyDF
  /\ \E variable \in { "NO2", "SO2" } :
     \E k \in 0..MaxVars :
     \E ds \in [ 1..k -> DataVars ] :
       /\ \A i, j \in 1..k : ds[i].name = ds[j].name => i = j
       /\ arg = [ ds |-> ds, variable |-> variable ]
  /\ ret = EmptyDF
  /\ pc = "start"

\* the body of the file loop of _process_tempo_data around the call:
\* ret.selected is the variable returned, ret.frames the number of frames
\* the file appends (none when var_data is None)
CallExtractTempoVariable ==
  /\ pc = "start"
  /\ \E sel \in { ExtractTempoVariable(arg.ds, arg.variable) } :
       ret' = [ selected |-> sel, frames |-> IF sel = 0 THEN 0 ELSE 1 ]
  /\ pc' = "done"
  /\ UNCHANGED << now, sources, ground_aware, ground_data, tempo_data,
                  weather_data, viirs_data, unified_grid, scaffold, aggregated,
                  result, arg >>

NextTempoVariable == CallExtractTempoVariable

SpecTempoVariable == InitTempoVariable /\ [][NextTempoVariable]_vars

(***************************************************************************)
(* _netcdf_to_dataframe on its own.  A field is the sequence of the values *)
(* at its grid points; a value is a number, NaN, or an infinity, written   *)
(* as the fraction 1/0 or -1/0.                                            *)
(***************************************************************************)
PosInf == [ n |-> 1, d |-> 0 ]

NegInf == [ n |-> -1, d |-> 0 ]

\* np.isfinite
IsFinite(v) == v.d > 0

\* the long-form records of a field, one per grid point, in order:
\* dropna(subset=['value']) removes the NaN values, df['value'] != -999 the
\* fill value
NetcdfToDataFrame(field, variable_name) ==
  LET all == [ i \in 1..Len(field) |->
                 [ time |-> 0, latitude |-> i, longitude |-> 1,
                   variable |-> variable_name, value |-> field[i] ] ]
      present == SelectSeq(all, LAMBDA o : NotNa(o.value))
  IN  SelectSeq(present, LAMBDA o : o.value # Num(FillValue))

FieldValues == { Num(1), Num(0), Num(FillValue), NaN, PosInf, NegInf }

InitNetcdf ==
  /\ now = 0
  /\ sources = NoSources
  /\ ground_aware = FALSE
  /\ ground_data = EmptyDF
  /\ tempo_data = EmptyDF
  /\ weather_data = EmptyDF
  /\ viirs_data = EmptyDF
  /\ unified_grid = EmptyDF
  /\ scaffold = EmptyDF
  /\ aggregated = EmptyDF
  /\ result = EmptyDF
  /\ \E k \in 0..MaxPoints : \E field \in [ 1..k -> FieldValues ] : arg = field
  /\ ret = << >>
  /\ pc = "start"

CallNetcdfToDataFrame ==
  /\ pc = "start"
  /\ ret' = NetcdfToDataFrame(arg, "NO2")
  /\ pc' = "done"
  /\ UNCHANGED << now, sources, ground_aware, ground_data, tempo_data,
                  weather_data, viirs_data, unified_grid, scaffold, aggregated,
                  result, arg >>

NextNetcdf == CallNetcdfToDataFrame

SpecNetcdf == InitNetcdf /\ [][NextNetcdf]_vars

(***************************************************************************)
(* OpenAQFetcher.fetch_measurements: the hourly results of the sensor of   *)
(* each location are turned into measurements and cleaned.  A location is  *)
(*   [coords |-> whether it has coordinates, parameter |-> of its sensor,  *)
(*    results |-> the hourly results of the sensor]                        *)
(* and a result [value |-> ..., dated |-> whether its period is readable]; *)
(* a value is [given |-> "absent" | "null" | "number", v |-> the number].  *)
(* Result k of a sensor is of hour k.                                      *)
(***************************************************************************)
\* parameter_mapping, an unmapped name passing through
ParameterName(p) ==
  IF p = "pm25" THEN "PM2.5"
  ELSE IF p = "pm10" THEN "PM10"
  ELSE IF p = "no2" THEN "NO2"
  ELSE IF p = "o3" THEN "O3"
  ELSE IF p = "so2" THEN "SO2"
  ELSE IF p = "co" THEN "CO"
  ELSE p

\* float(result.get('value', 0)): an absent key gives 0.0
ValueOf(value) == IF value.given = "absent" THEN 0 ELSE value.v

\* _fetch_location_sensors_data for location li: float(None) raises
\* TypeError, which the inner except (ValueError, KeyError) does not catch;
\* the except of the sensor ends its loop, keeping what was appended
SensorMeasurements(locations, li) ==
  LET loc == locations[li]
      nulls == { k \in 1..Len(loc.results) : loc.results[k].value.given = "null" }
      last == IF nulls = {} THEN Len(loc.results)
              ELSE (CHOOSE k \in nulls : \A j \in nulls : k <= j) - 1
  IN  [ k \in 1..last |->
          [ datetime  |-> IF loc.results[k].dated THEN k * MinutesPerHour ELSE NaT,
            parameter |-> loc.parameter,
            value     |-> ValueOf(loc.results[k].value),
            latitude  |-> IF loc.coords THEN Num(1) ELSE NaN,
            longitude |-> IF loc.coords THEN Num(li) ELSE NaN,
            location  |-> li ] ]

\* all_measurements of fetch_measurements
RECURSIVE AllMeasurements(_, _)
AllMeasurements(locations, n) ==
  IF n = 0 THEN << >>
  ELSE AllMeasurements(locations, n - 1) \o SensorMeasurements(locations, n)

\* value > param_data.quantile(0.999): with up to a thousand values the
\* quantile lies between the two largest, below the largest when that is
\* larger than every other value
AboveQuantile(v, vals) ==
  /\ Len(vals) >= 2
  /\ \A k \in 1..Len(vals) : vals[k] <= v
  /\ Cardinality({ k \in 1..Len(vals) : vals[k] = v }) = 1

\* _clean_measurements
CleanMeasurements(ms) ==
  LET dated == SelectSeq(ms, LAMBDA m : m.datetime # NaT)
      valid == SelectSeq(dated, LAMBDA m : m.value >= 0)
      vals(prm) == LET of == SelectSeq(valid, LAMBDA m : m.parameter = prm)
                   IN  [ k \in 1..Len(of) |-> of[k].value ]
      kept == SelectSeq(valid, LAMBDA m : ~AboveQuantile(m.value, vals(m.parameter)))
  IN  [ k \in 1..Len(kept) |->
          [ datetime  |-> kept[k].datetime,
            parameter |-> ParameterName(kept[k].parameter),
            value     |-> kept[k].value,
            latitude  |-> kept[k].latitude,
            longitude |-> kept[k].longitude,
            lat_grid  |-> IF IsNa(kept[k].latitude) THEN NaN
                          ELSE Num(Snap(kept[k].latitude.n)),
            lon_grid  |-> IF IsNa(kept[k].longitude) THEN NaN
                          ELSE Num(Snap(kept[k].longitude.n)),
            location  |-> kept[k].location ] ]

\* df['latitude'] / GRID_RESOLUTION when no measurement has coordinates:
\* the column holds None objects only, and None / float is a TypeError
CleanRaises(ms) ==
  /\ CleanMeasurements(ms) # << >>
  /\ \A k \in 1..Len(ms) : IsNa(ms[k].latitude)

ReadingValues ==
  { [ given |-> "absent", v |-> 0 ], [ given |-> "null", v |-> 0 ] }
  \cup [ given : { "number" }, v : { -1, 2, 5 } ]

Readings ==
  [ value : ReadingValues, dated : { TRUE } ]
  \cup { [ value |-> [ given |-> "number", v |-> 2 ], dated |-> FALSE ] }

Locations ==
  [ coords : BOOLEAN, parameter : { "pm25", "o3" },
    results : UNION { [ 1..k -> Readings ] : k \in 0..MaxReadings } ]

InitGround ==
  /\ now = 0
  /\ sources = NoSources
  /\ ground_aware = FALSE
  /\ ground_data = EmptyDF
  /\ tempo_data = EmptyDF
  /\ weather_data = EmptyDF
  /\ viirs_data = EmptyDF
  /\ unified_grid = EmptyDF
  /\ scaffold = EmptyDF
  /\ aggregated = EmptyDF
  /\ result = EmptyDF
  /\ \E n \in 0..MaxLocations : \E locations \in [ 1..n -> Locations ] :
       arg = locations
  /\ ret = << >>
  /\ pc = "start"

\* fetch_measurements: None ("none") when nothing was retrieved, else the
\* cleaned records that _process_and_save writes
FetchMeasurements ==
  /\ pc = "start"
  /\ \E ms \in { AllMeasurements(arg, Len(arg)) } :
       IF ms = << >>
       THEN ret' = << >> /\ pc' = "none"
       ELSE IF CleanRaises(ms)
       THEN ret' = << >> /\ pc' = "raised"
       ELSE ret' = CleanMeasurements(ms) /\ pc' = "done"
  /\ UNCHANGED << now, sources, ground_aware, ground_data, tempo_data,
                  weather_data, viirs_data, unified_grid, scaffold, aggregated,
                  result, arg >>

NextGround == FetchMeasurements

SpecGround == InitGround /\ [][NextGround]_vars

(***************************************************************************)
(* build_past_week_hourly.main from the call of unify_all_sources on:      *)
(* the output directory is made, the table is written as Parquet, then as  *)
(* CSV, then the completeness report is logged.  ret is                    *)
(*   [parquet |-> ..., csv |-> ...], each "pending", "written" or "failed".*)
(* An exception of unify_all_sources or of mkdir leaves main.              *)
(***************************************************************************)
InitMain ==
  /\ now \in Clocks
  /\ \E g \in SeqsUpTo(GroundObs, MaxMainObs) :
     \E t \in SeqsUpTo(TempoObs, MaxMainObs - Len(g)) :
     \E w \in SeqsUpTo(WeatherObs, MaxMainObs - Len(g) - Len(t)) :
     \E v \in SeqsUpTo(ViirsObs, MaxMainObs - Len(g) - Len(t) - Len(w)) :
       sources = [ GROUND |-> g, TEMPO |-> t, WEATHER |-> w, VIIRS |-> v ]
  /\ ground_aware \in IF sources.GROUND = <<>> THEN {FALSE} ELSE BOOLEAN
  /\ ground_data = EmptyDF
  /\ tempo_data = EmptyDF
  /\ weather_data = EmptyDF
  /\ viirs_data = EmptyDF
  /\ unified_grid = EmptyDF
  /\ scaffold = EmptyDF
  /\ aggregated = EmptyDF
  /\ result = EmptyDF
  /\ arg = EmptyDF
  /\ ret = [ parquet |-> "pending", csv |-> "pending" ]
  /\ pc = "start"

\* out_dir.mkdir(parents=True, exist_ok=True), outside every try
MakeOutDir ==
  /\ pc = "done"
  /\ \E ok \in BOOLEAN : pc' = IF ok THEN "dir" ELSE "aborted"
  /\ UNCHANGED << now, sources, ground_aware, ground_data, tempo_data,
                  weather_data, viirs_data, unified_grid, scaffold, aggregated,
                  result, arg, ret >>

\* a Parquet step whose failure leaves main
AfterParquetAborting(ok) == IF ok THEN "parquet_tried" ELSE "aborted"

\* where main goes after the try around unified.to_parquet: the except
\* logs a warning and main goes on
AfterParquet(ok) == "parquet_tried"

WriteParquet ==
  /\ pc = "dir"
  /\ \E ok \in BOOLEAN :
       /\ ret' = [ ret EXCEPT !.parquet = IF ok THEN "written" ELSE "failed" ]
       /\ pc' = AfterParquet(ok)
  /\ UNCHANGED << now, sources, ground_aware, ground_data, tempo_data,
                  weather_data, viirs_data, unified_grid, scaffold, aggregated,
                  result, arg >>

\* the try around unified.to_csv
WriteCsv ==
  /\ pc = "parquet_tried"
  /\ \E ok \in BOOLEAN :
       ret' = [ ret EXCEPT !.csv = IF ok THEN "written" ELSE "failed" ]
  /\ pc' = "csv_tried"
  /\ UNCHANGED << now, sources, ground_aware, ground_data, tempo_data,
                  weather_data, viirs_data, unified_grid, scaffold, aggregated,
                  result, arg >>

\* the completeness report, which only logs
ReportCompleteness ==
  /\ pc = "csv_tried"
  /\ pc' = "finished"
  /\ UNCHANGED << now, sources, ground_aware, ground_data, tempo_data,
                  weather_data, viirs_data, unified_grid, scaffold, aggregated,
                  result, arg, ret >>

NextMain ==
  \/ UnifyAllSources
  \/ MakeOutDir
  \/ WriteParquet
  \/ WriteCsv
  \/ ReportCompleteness

\* main runs its statements one after the other: once the Parquet step is
\* over, the CSV step that follows it is run
SpecMain == InitMain /\ [][NextMain]_vars /\ WF_vars(WriteCsv)

(***************************************************************************)
(* _fill_missing_values on its own.  It changes df in place, pair by pair; *)
(* ret is df after the call, also when the call raised part way.           *)
(***************************************************************************)
\* df when the call raises: the pairs before the first one whose canonical
\* column is absent have been filled
FilledBeforeRaise(df) ==
  LET bad == { i \in DOMAIN FILL_PAIRS :
                 HasCol(df, FILL_PAIRS[i][2]) /\ ~HasCol(df, FILL_PAIRS[i][1]) }
      first == CHOOSE i \in bad : \A j \in bad : i <= j
      later == { FILL_PAIRS[i][2] : i \in { j \in DOMAIN FILL_PAIRS : j >= first } }
      seen == [ df EXCEPT !.cols = SelectSeq(df.cols, LAMBDA c : c \notin later) ]
  IN  [ FillMissingValues(seen) EXCEPT !.cols = df.cols ]

FillCols ==
  << "PM2.5", "NO2", "temperature", "PM2.5_satellite", "NO2_satellite" >>

\* a canonical column holds NaN or 1, a fallback column NaN or 2
FillCells(c) ==
  IF c \in { "PM2.5_satellite", "NO2_satellite" } THEN { NaN, Num(2) }
  ELSE { NaN, Num(1) }

\* the tables of k rows over the columns cs, row i of hour i
FillTables(cs, k) ==
  { [ cols |-> << "time" >> \o SelectSeq(FillCols, LAMBDA c : c \in cs),
      rows |-> [ i \in 1..k |-> ("time" :> i * MinutesPerHour) @@ fs[i] ],
      tz   |-> FALSE ] :
    fs \in [ 1..k -> { g \in [ cs -> { NaN, Num(1), Num(2) } ] :
                         \A c \in cs : g[c] \in FillCells(c) } ] }

InitFill ==
  /\ now = 0
  /\ sources = NoSources
  /\ ground_aware = FALSE
  /\ ground_data = EmptyDF
  /\ tempo_data = EmptyDF
  /\ weather_data = EmptyDF
  /\ viirs_data = EmptyDF
  /\ unified_grid = EmptyDF
  /\ scaffold = EmptyDF
  /\ aggregated = EmptyDF
  /\ result = EmptyDF
  /\ \E cs \in SUBSET Range(FillCols) :
     \E k \in 1..MaxFillRows :
       arg \in FillTables(cs, k)
  /\ ret = EmptyDF
  /\ pc = "start"

CallFillMissingValues ==
  /\ pc = "start"
  /\ IF FillRaises(arg)
     THEN ret' = FilledBeforeRaise(arg) /\ pc' = "raised"
     ELSE ret' = FillMissingValues(arg) /\ pc' = "done"
  /\ UNCHANGED << now, sources, ground_aware, ground_data, tempo_data,
                  weather_data, viirs_data, unified_grid, scaffold, aggregated,
                  result, arg >>

NextFill == CallFillMissingValues

SpecFill == InitFill /\ [][NextFill]_vars

(***************************************************************************)
(* Properties of a run of unify_all_sources, of the scaffold builder and   *)
(* of the finalizer.                                                       *)
(***************************************************************************)
Returned == pc = "done"

\* _merge_all_sources came back with a table: the run went on to build the
\* scaffold
MergeReturned == pc # "start" /\ ~IsEmpty(scaffold)

\* the cells of column c in the rows of df whose time is h
CellsAt(df, c, h) ==
  LET at == SelectSeq(df.rows, LAMBDA r : r["time"] = h)
  IN  [ i \in 1..Len(at) |-> at[i][c] ]

\* the rows of the returned table whose time is h
ResultAt(h) == { i \in 1..Len(result.rows) : result.rows[i]["time"] = h }

\* C1: whatever the four sources hold, the table unify_all_sources returns
\* has exactly 168 rows, one per hour of the scaffold.
C1_ReturnsScaffoldLength ==
  Returned => Len(result.rows) = 168

C1_Witness ==
  /\ Returned
  /\ Len(unified_grid.rows) = 2
  /\ Len(aggregated.rows) = 2
  /\ \E i \in 1..2 : ResultAt(aggregated.rows[i]["time"]) = {}
  /\ Len(result.rows) = 168

\* C2: for every hour h of the returned table and every canonical variable
\* v, when the merged grid table holds at least one non-missing value of v
\* at h, the returned row of h holds the mean of those values.
C2_OutputIsSpatialMean ==
  (Returned /\ ~IsEmpty(unified_grid)) =>
    \A i \in 1..Len(result.rows) :
      \A v \in Range(Tail(TARGET_COLUMNS)) :
        HasCol(unified_grid, v) =>
          LET cells == CellsAt(unified_grid, v, result.rows[i]["time"])
          IN  (\E k \in 1..Len(cells) : NotNa(cells[k])) =>
                result.rows[i][v] = Mean(cells)

\* C3: at an hour held by a single grid cell, a ground value V1 is what the
\* returned row holds even when the satellite reports another value V2 for
\* the same cell and hour; when only the satellite value V2 is there, the
\* returned row holds V2.
C3_GroundBeatsSatellite ==
  Returned =>
    \A i \in 1..Len(result.rows) :
      LET h  == result.rows[i]["time"]
          gs == IF HasCol(ground_data, "NO2") THEN CellsAt(ground_data, "NO2", h) ELSE << >>
          ts == IF HasCol(tempo_data, "NO2") THEN CellsAt(tempo_data, "NO2", h) ELSE << >>
      IN  /\ (Len(gs) = 1 /\ NotNa(gs[1])) => result.rows[i]["NO2"] = gs[1]
          /\ (CellsAt(ground_data, "time", h) = << >>
                /\ Len(ts) = 1 /\ NotNa(ts[1])) => result.rows[i]["NO2"] = ts[1]

\* C4: when all four sources are empty the returned table has the scaffold's
\* rows, every pollutant and weather column missing on every row, and a
\* no_data_flag column that is true on every row.
C4_EmptyRunIsFlagged ==
  (Returned /\ sources = NoSources) =>
    /\ Len(result.rows) = 168
    /\ \A i \in 1..Len(result.rows) :
         \A c \in Range(Tail(TARGET_COLUMNS)) : IsNa(result.rows[i][c])
    /\ HasCol(result, "no_data_flag")
    /\ \A i \in 1..Len(result.rows) : result.rows[i]["no_data_flag"] = TRUE

\* C5: the time column of the returned table is strictly increasing, holds
\* no value twice, and consecutive rows are exactly one hour apart.
C5_HourlyStrictlyIncreasing ==
  Returned =>
    /\ \A i \in 1..(Len(result.rows) - 1) :
         /\ result.rows[i]["time"] < result.rows[i + 1]["time"]
         /\ result.rows[i + 1]["time"] - result.rows[i]["time"] = 60
    /\ Cardinality({ result.rows[i]["time"] : i \in 1..Len(result.rows) })
         = Len(result.rows)

C5_Witness ==
  /\ Returned
  /\ HasCol(result, "no_data_flag")
  /\ Len(aggregated.rows) = 2
  /\ Len(result.rows) = 168
  /\ result.rows[168]["time"] - result.rows[1]["time"] = 167 * 60

\* C6: for the window end E (the clock cut to the hour) the scaffold holds
\* the hours E-168h, E-167h, ..., E-1h: 168 rows, E itself left out, and
\* every canonical pollutant and weather column missing on every row.
C6_ScaffoldIsTrailingWeek ==
  Returned =>
    LET E == CHOOSE e \in (now - 59)..now : e % 60 = 0
    IN  /\ Len(scaffold.rows) = 168
        /\ scaffold.rows[1]["time"] = E - 168 * 60
        /\ scaffold.rows[168]["time"] = E - 60
        /\ \A i \in 1..168 : scaffold.rows[i]["time"] = E - (169 - i) * 60
        /\ \A i \in 1..168 : scaffold.rows[i]["time"] # E
        /\ scaffold.cols = TARGET_COLUMNS
        /\ \A i \in 1..168 :
             \A c \in Range(Tail(TARGET_COLUMNS)) : scaffold.rows[i][c] = NaN

C6_Witness ==
  /\ Returned
  /\ now = 119
  /\ scaffold.rows[1]["time"] = 60 - 168 * 60
  /\ scaffold.rows[168]["time"] = 0

\* C7: on every row the finalizer returns, no_data_flag is true exactly when
\* PM2.5, PM10, O3, NO2, SO2 and CO are all missing, whatever the weather
\* columns hold.
C7_FlagIffNoPollutant ==
  Returned =>
    \A i \in 1..Len(ret.rows) :
      ret.rows[i]["no_data_flag"] =
        (\A p \in {"PM2.5", "PM10", "O3", "NO2", "SO2", "CO"} : ret.rows[i][p] = NaN)

C7_Witness ==
  /\ Returned
  /\ Len(ret.rows) = 2
  /\ ret.rows[1]["no_data_flag"] = TRUE
  /\ NotNa(ret.rows[1]["temperature"])
  /\ ret.rows[2]["no_data_flag"] = FALSE
  /\ NotNa(ret.rows[2]["NO2"])
  /\ IsNa(ret.rows[2]["temperature"])

\* b is the base of the merged table m: m has b's rows in b's order, b's
\* columns first, and b's cells in them
IsBaseOf(b, m) ==
  /\ Len(m.rows) = Len(b.rows)
  /\ SubSeq(m.cols, 1, Len(b.cols)) = b.cols
  /\ \A i \in 1..Len(b.rows) :
       \A c \in Range(b.cols) : m.rows[i][c] = b.rows[i][c]

\* C8: the merge takes the ground table as its base when it is non-empty and
\* the TEMPO table otherwise; when both are empty the merged table is empty,
\* weather and VIIRS rows or not, and the run returns the scaffold as it is.
C8_BaseSelection ==
  pc # "start" =>
    /\ (~IsEmpty(ground_data) /\ MergeReturned) =>
         /\ ~IsEmpty(unified_grid)
         /\ IsBaseOf(ground_data, unified_grid)
    /\ (IsEmpty(ground_data) /\ ~IsEmpty(tempo_data)) =>
         /\ ~IsEmpty(unified_grid)
         /\ IsBaseOf(tempo_data, unified_grid)
    /\ (IsEmpty(ground_data) /\ IsEmpty(tempo_data)) =>
         /\ IsEmpty(unified_grid)
         /\ Returned
         /\ result = scaffold
         /\ Len(result.rows) = 168

C8_Witness ==
  /\ Returned
  /\ ~IsEmpty(ground_data)
  /\ ~IsEmpty(tempo_data)
  /\ IsBaseOf(ground_data, unified_grid)
  /\ ~IsBaseOf(tempo_data, unified_grid)

\* C9: a non-empty ground table merged with empty TEMPO, weather and VIIRS
\* tables comes back as it went in: same rows, same columns, same values.
C9_GroundAloneUnchanged ==
  (pc # "start" /\ ~IsEmpty(ground_data) /\ IsEmpty(tempo_data)
     /\ IsEmpty(weather_data) /\ IsEmpty(viirs_data)) =>
    unified_grid = ground_data

C9_Witness ==
  /\ pc # "start"
  /\ Len(ground_data.rows) = 2
  /\ IsEmpty(tempo_data) /\ IsEmpty(weather_data) /\ IsEmpty(viirs_data)
  /\ unified_grid = ground_data

\* the name a column c of a secondary table carries in the merged table
MergedName(base, c, sfx) == IF HasCol(base, c) THEN c \o sfx ELSE c

\* the base row i has no row of sec with its (time, lat_grid, lon_grid), and
\* every column sec brought is missing on the merged row i
UnmatchedIsMissing(base, sec, sfx, i) ==
  (\A k \in 1..Len(sec.rows) : RowKey(sec.rows[k]) # RowKey(base.rows[i])) =>
    \A c \in Range(sec.cols) \ Range(MERGE_KEYS) :
      unified_grid.rows[i][MergedName(base, c, sfx)] = NaN

\* C10: joining a secondary table keeps exactly one merged row per base row,
\* with the base row's (time, lat_grid, lon_grid); a base row without a
\* match has the secondary table's columns missing.
C10_LeftJoinKeepsBaseRows ==
  MergeReturned =>
    LET base == IF ~IsEmpty(ground_data) THEN ground_data ELSE tempo_data
    IN  /\ Len(unified_grid.rows) = Len(base.rows)
        /\ \A i \in 1..Len(base.rows) :
             /\ RowKey(unified_grid.rows[i]) = RowKey(base.rows[i])
             /\ ~IsEmpty(weather_data) =>
                  UnmatchedIsMissing(base, weather_data, "_weather", i)
             /\ ~IsEmpty(tempo_data) =>
                  UnmatchedIsMissing(base, tempo_data, "_satellite", i)
             /\ ~IsEmpty(viirs_data) =>
                  UnmatchedIsMissing(base, viirs_data, "_viirs", i)

C10_Witness ==
  /\ pc # "start"
  /\ Len(ground_data.rows) = 1
  /\ Len(tempo_data.rows) = 1
  /\ RowKey(tempo_data.rows[1]) # RowKey(ground_data.rows[1])
  /\ Len(unified_grid.rows) = 1
  /\ unified_grid.rows[1]["data_source_satellite"] = NaN

\* every column of sec that has the name of a base column is in the merged
\* table under that name followed by sfx, holding sec's value on the rows
\* whose key sec has
CarriedUnderSuffix(base, sec, sfx) ==
  \A c \in (Range(sec.cols) \cap Range(base.cols)) \ Range(MERGE_KEYS) :
    /\ HasCol(unified_grid, c \o sfx)
    /\ \A i \in 1..Len(base.rows) :
         \A k \in 1..Len(sec.rows) :
           RowKey(sec.rows[k]) = RowKey(base.rows[i]) =>
             unified_grid.rows[i][c \o sfx] = sec.rows[k][c]

\* C11: _merge_all_sources changes no value of a base column: a secondary
\* column with the name of a base column arrives under the name suffixed
\* _weather, _satellite or _viirs, and every base column keeps its values.
C11_BaseValuesKept ==
  MergeReturned =>
    LET base == IF ~IsEmpty(ground_data) THEN ground_data ELSE tempo_data
    IN  /\ Len(unified_grid.rows) = Len(base.rows)
        /\ \A i \in 1..Len(base.rows) :
             \A c \in Range(base.cols) :
               /\ HasCol(unified_grid, c)
               /\ unified_grid.rows[i][c] = base.rows[i][c]
        /\ ~IsEmpty(base) =>
             /\ ~IsEmpty(weather_data) =>
                  CarriedUnderSuffix(base, weather_data, "_weather")
             /\ ~IsEmpty(tempo_data) =>
                  CarriedUnderSuffix(base, tempo_data, "_satellite")
             /\ ~IsEmpty(viirs_data) =>
                  CarriedUnderSuffix(base, viirs_data, "_viirs")

C11_Witness ==
  /\ MergeReturned
  /\ Len(ground_data.rows) = 1
  /\ HasCol(ground_data, "NO2")
  /\ Len(unified_grid.rows) = 1
  /\ HasCol(unified_grid, "NO2_satellite")
  /\ unified_grid.rows[1]["NO2"] = Num(3)
  /\ unified_grid.rows[1]["NO2_satellite"] = Num(1)
  /\ unified_grid.rows[1]["data_source"] = Tag("ground")
  /\ unified_grid.rows[1]["data_source_satellite"] = Tag("tempo")

\* C12: at an hour of the window where the merged table holds an aerosol
\* estimate (PM2.5_satellite, PM10_satellite) and no ground or satellite
\* value of PM2.5 (PM10), the returned row holds the aerosol estimate,
\* other canonical variables being in the merged table or not.
C12_AerosolLastResort ==
  (Returned /\ ~IsEmpty(unified_grid)) =>
    \A i \in 1..Len(result.rows) :
      \A p \in { << "PM2.5", "PM2.5_satellite" >>, << "PM10", "PM10_satellite" >> } :
        LET h == result.rows[i]["time"]
            est == IF HasCol(unified_grid, p[2])
                   THEN CellsAt(unified_grid, p[2], h) ELSE << >>
            own == IF HasCol(unified_grid, p[1])
                   THEN CellsAt(unified_grid, p[1], h) ELSE << >>
        IN  ((\E k \in 1..Len(est) : NotNa(est[k]))
               /\ (\A k \in 1..Len(own) : IsNa(own[k]))) =>
              result.rows[i][p[1]] = Mean(est)

\* C13: snapping is idempotent: for every resolution r > 0 and every
\* coordinate pair, snapping the snapped pair with the same r gives the
\* same cell.
C13_SnapIdempotent ==
  pc = "done" => (result.a = ret.a /\ result.b = ret.b)

C13_Witness ==
  /\ pc = "done"
  /\ arg.r = 3
  /\ arg.a = << 4, -2 >>
  /\ ret.a = << 3, -3 >>
  /\ ret.a # arg.a
  /\ result.a = ret.a

\* |x - y| is less than half of r
WithinHalfStep(x, y, r) == 2 * (IF x < y THEN y - x ELSE x - y) < r

\* C14 as the specification states it: two observations of one hour whose
\* latitudes are less than half a grid step apart and whose longitudes are
\* less than half a grid step apart get the same grid cell.
C14_CloseObservationsShareCell ==
  pc # "start" =>
    ((WithinHalfStep(arg.a[1], arg.b[1], arg.r)
        /\ WithinHalfStep(arg.a[2], arg.b[2], arg.r)) => ret.a = ret.b)

\* C14 as the code has it: two observations of one hour that are both less
\* than half a grid step, on each axis, from the same grid point get the
\* same grid cell, that grid point.
C14_NearSameGridPointShareCell ==
  pc # "start" =>
    \A k \in (-MaxCoord - 1)..(MaxCoord + 1) :
      \A l \in (-MaxCoord - 1)..(MaxCoord + 1) :
        (/\ WithinHalfStep(arg.a[1], k * arg.r, arg.r)
         /\ WithinHalfStep(arg.b[1], k * arg.r, arg.r)
         /\ WithinHalfStep(arg.a[2], l * arg.r, arg.r)
         /\ WithinHalfStep(arg.b[2], l * arg.r, arg.r)) =>
          (ret.a = << k * arg.r, l * arg.r >> /\ ret.b = ret.a)

C14_Witness ==
  /\ pc # "start"
  /\ arg.r = 4
  /\ arg.a = << 1, -3 >>
  /\ arg.b = << -1, -4 >>
  /\ ret.a = << 0, -4 >>
  /\ ret.b = ret.a

\* the sum of a sequence of integers
RECURSIVE SumOf(_)
SumOf(vs) == IF vs = << >> THEN 0 ELSE Head(vs) + SumOf(Tail(vs))

\* the values of variable v among the long-form records of key k
ValuesAt(long, k, v) ==
  LET hit(o) == << o.time, o.lat_grid, o.lon_grid >> = k /\ o.variable = v
      sel == SelectSeq(long, hit)
  IN  [ i \in 1..Len(sel) |-> sel[i].value ]

\* table holds one row per key of the long-form records, and under each
\* variable the arithmetic mean of the records of that key and variable
IsMeanTable(table, long) ==
  /\ \A i, j \in 1..Len(table.rows) :
       RowKey(table.rows[i]) = RowKey(table.rows[j]) => i = j
  /\ { RowKey(table.rows[i]) : i \in 1..Len(table.rows) }
       = { << o.time, o.lat_grid, o.lon_grid >> : o \in Range(long) }
  /\ \A i \in 1..Len(table.rows) :
       \A v \in { o.variable : o \in Range(long) } :
         LET vals == ValuesAt(long, RowKey(table.rows[i]), v)
             cell == table.rows[i][v]
         IN  IF vals = << >> THEN cell = NaN
             ELSE cell.d > 0 /\ cell.n * Len(vals) = SumOf(vals) * cell.d

\* the PM estimates of the AOD records: all PM2.5 estimates, then all PM10
AerosolEstimates(obs) ==
  [ i \in 1..Len(obs) |-> [ obs[i] EXCEPT !.variable = "PM2.5_satellite",
                                          !.value = obs[i].value * 35 ] ]
  \o
  [ i \in 1..Len(obs) |-> [ obs[i] EXCEPT !.variable = "PM10_satellite",
                                          !.value = obs[i].value * 60 ] ]

\* C15: in the wide table of each source (time, lat_grid, lon_grid) is a
\* unique key, and the value of a variable at a key is the arithmetic mean
\* of the raw observations of that variable at that key: not their sum,
\* not one row each.
C15_WideTableKeyedMeans ==
  pc # "start" =>
    /\ IsMeanTable(ground_data, sources.GROUND)
    /\ IsMeanTable(tempo_data, Regrid(sources.TEMPO))
    /\ IsMeanTable(weather_data, Regrid(sources.WEATHER))
    /\ IsMeanTable(viirs_data, Regrid(AerosolEstimates(sources.VIIRS)))

C15_Witness ==
  /\ pc # "start"
  /\ Len(sources.TEMPO) = 2
  /\ sources.TEMPO[1].value # sources.TEMPO[2].value
  /\ Len(tempo_data.rows) = 1
  /\ tempo_data.rows[1]["NO2"] = [ n |-> 3, d |-> 2 ]

C17_FinalSchemaForAnyColumns ==
  pc # "start" =>
    /\ pc = "done"
    /\ ret.cols = << "time", "PM2.5", "PM10", "O3", "NO2", "SO2", "CO",
                     "temperature", "humidity", "wind_speed", "no_data_flag" >>
    /\ \A i \in 1..Len(ret.rows) :
         \A c \in { "PM2.5", "PM10", "O3", "NO2", "SO2", "CO",
                    "temperature", "humidity", "wind_speed" } :
           ~HasCol(arg, c) => ret.rows[i][c] = NaN

\* C18: the finalizer returns its rows in ascending order of time with at
\* most one row per timestamp: of several input rows of one time only the
\* first is in the output.
C18_SortedAndDeduplicated ==
  pc = "done" =>
    /\ \A i \in 1..(Len(ret.rows) - 1) :
         ret.rows[i]["time"] < ret.rows[i + 1]["time"]
    /\ \A i \in 1..Len(ret.rows) :
         LET first == CHOOSE k \in 1..Len(arg.rows) :
                        /\ arg.rows[k]["time"] = ret.rows[i]["time"]
                        /\ \A j \in 1..(k - 1) :
                             arg.rows[j]["time"] # ret.rows[i]["time"]
         IN  \A c \in Range(arg.cols) \cap Range(TARGET_COLUMNS) :
               ret.rows[i][c] = arg.rows[first][c]

\* the values of column c that are present among the rows of df of time t
PresentAt(df, c, t) ==
  LET hit(r) == r["time"] = t /\ r[c] # NaN
      sel == SelectSeq(df.rows, hit)
  IN  [ i \in 1..Len(sel) |-> sel[i][c].n ]

\* cell is the arithmetic mean of the integers vals, missing when there are
\* none
IsMeanOf(cell, vals) ==
  IF vals = << >> THEN cell = NaN
  ELSE cell.d > 0 /\ cell.n * Len(vals) = SumOf(vals) * cell.d

\* C19: _aggregate_spatial returns one row per distinct valid timestamp of
\* its input; under each canonical variable column the value of a timestamp
\* is the arithmetic mean over the cells whose value is present at that
\* timestamp: a missing cell is left out, not counted as zero, and the
\* result is missing only when every cell is.
C19_MeanOverPresentCells ==
  pc = "done" =>
    LET valid == { arg.rows[i]["time"] : i \in 1..Len(arg.rows) } \ { NaT }
    IN  /\ Len(ret.rows) = Cardinality(valid)
        /\ { ret.rows[i]["time"] : i \in 1..Len(ret.rows) } = valid
        /\ \A c \in { "NO2", "temperature" } \cap Range(arg.cols) :
             /\ HasCol(ret, c)
             /\ \A i \in 1..Len(ret.rows) :
                  IsMeanOf(ret.rows[i][c], PresentAt(arg, c, ret.rows[i]["time"]))

C19_Witness ==
  /\ pc = "done"
  /\ HasCol(arg, "NO2")
  /\ Len(arg.rows) = 2
  /\ arg.rows[1]["time"] = 0
  /\ arg.rows[2]["time"] = 0
  /\ arg.rows[1]["NO2"] = NaN
  /\ arg.rows[2]["NO2"] = Num(2)
  /\ Len(ret.rows) = 1
  /\ ret.rows[1]["NO2"] = Num(2)

\* C20: when the table has no canonical variable column but has
\* PM2.5_satellite and/or PM10_satellite, _aggregate_spatial renames them
\* to PM2.5 / PM10, and the result holds their means per hour under the
\* canonical names.
C20_FallbackRenamedAndAggregated ==
  (pc = "done" /\ Range(arg.cols) \cap Range(TARGET_COLUMNS) = { "time" }) =>
    \A p \in { << "PM2.5", "PM2.5_satellite" >>, << "PM10", "PM10_satellite" >> } :
      HasCol(arg, p[2]) =>
        /\ HasCol(ret, p[1])
        /\ ~HasCol(ret, p[2])
        /\ \A i \in 1..Len(ret.rows) :
             IsMeanOf(ret.rows[i][p[1]], PresentAt(arg, p[2], ret.rows[i]["time"]))

C20_Witness ==
  /\ pc = "done"
  /\ arg.cols = MERGE_KEYS \o << "PM2.5_satellite", "PM10_satellite" >>
  /\ Len(arg.rows) = 2
  /\ arg.rows[1]["time"] = 0 /\ arg.rows[2]["time"] = 0
  /\ arg.rows[1]["PM2.5_satellite"] = Num(1)
  /\ arg.rows[2]["PM2.5_satellite"] = NaN
  /\ ret.cols = << "time", "PM2.5", "PM10" >>
  /\ ret.rows[1]["PM2.5"] = Num(1)


\* the observations of the files of a batch that are opened and parsed,
\* in file order
ReadObs(source, files) ==
  LET read(i) == i \in Opened(source, files) /\ files[i].state = "ok"
      idx == SelectSeq([ i \in 1..Len(files) |-> i ], read)
  IN  [ k \in 1..Len(idx) |-> files[idx[k]].obs ]

\* the long-form records that a source makes of raw observations
LongForm(source, obs) ==
  IF source = "viirs" THEN Regrid(AerosolEstimates(obs)) ELSE Regrid(obs)

\* C21: whichever files of a batch fail to open or to parse, the wide table
\* of the source is the table of the observations of all the files that
\* were read: a failing file contributes nothing and the files after it are
\* still extracted; an extractor never raises while a file of the batch was
\* read in full.
C21_FailingFilesAreIsolated ==
  /\ pc = "done" =>
       IsMeanTable(ret.table, LongForm(arg.source, ReadObs(arg.source, arg.files)))
  /\ pc = "raised" => ReadObs(arg.source, arg.files) = << >>

C21_Witness ==
  /\ pc = "done"
  /\ Len(arg.files) = 2
  /\ arg.files[1].state = "corrupt"
  /\ arg.files[1].size = MinFileBytes
  /\ arg.files[2].state = "ok"
  /\ arg.files[2].size = MinFileBytes
  /\ Len(ret.table.rows) = 1
  /\ arg.source = "weather"
  /\ ret.table.rows[1]["temperature"] = Num(arg.files[2].obs.value)



\* C22: unify_all_sources never raises because of the content of the source
\* files: every run ends by returning a table.
C22_NeverRaises ==
  pc # "start" => pc = "done"

\* C23: in every extractor (satellite, weather, aerosol) a file below the
\* minimum size of 5000 bytes is skipped before any attempt to open it.
C23_TinyFilesNeverOpened ==
  pc # "start" =>
    \A i \in ret.opened : arg.files[i].size >= MinFileBytes



\* C29: two observations of one variable of one source that fall in the
\* same grid cell and in the same clock hour are averaged into one row of
\* the wide table: the table has one row per cell and hour.
C29_OneRowPerCellAndHour ==
  pc = "done" =>
    \A i, j \in 1..Len(ret.table.rows) :
      LET a == ret.table.rows[i]
          b == ret.table.rows[j]
      IN  ( /\ a.lat_grid = b.lat_grid
            /\ a.lon_grid = b.lon_grid
            /\ a.time \div MinutesPerHour = b.time \div MinutesPerHour ) => i = j

\* C30: when the ground table is empty and the satellite table is the base,
\* with empty weather and aerosol tables, the merged table has exactly the
\* columns of the satellite table: the base is not joined onto itself.
C30_BaseNotJoinedOntoItself ==
  ( /\ MergeReturned
    /\ IsEmpty(ground_data)
    /\ ~IsEmpty(tempo_data)
    /\ IsEmpty(weather_data)
    /\ IsEmpty(viirs_data) ) => unified_grid.cols = tempo_data.cols



\* the aliases of the target variable that the dataset holds, as places in
\* the alias list
AliasesPresent ==
  { k \in 1..Len(PossibleNames(arg.variable)) :
      \E i \in 1..Len(arg.ds) : arg.ds[i].name = PossibleNames(arg.variable)[k] }

\* a field with two or more dimensions, one named like a latitude and one
\* like a longitude
HasLatLonDims(da) ==
  /\ Len(da.dims) >= 2
  /\ \E k \in 1..Len(da.dims) : da.dims[k] \in { "lat", "latitude", "Latitude" }
  /\ \E k \in 1..Len(da.dims) : da.dims[k] \in { "lon", "longitude", "Longitude" }

\* the selection rule with "numeric" standing for the dtype kinds in kinds
SelectionRule(kinds) ==
  pc = "done" =>
    LET names == PossibleNames(arg.variable)
        cand == { i \in 1..Len(arg.ds) :
                    arg.ds[i].kind \in kinds /\ HasLatLonDims(arg.ds[i]) }
    IN  /\ AliasesPresent # {} =>
             /\ ret.selected # 0
             /\ \E k \in AliasesPresent :
                  /\ arg.ds[ret.selected].name = names[k]
                  /\ \A j \in AliasesPresent : k <= j
        /\ (AliasesPresent = {} /\ cand # {}) =>
             /\ ret.selected \in cand
             /\ \A j \in cand : ret.selected <= j
        /\ (AliasesPresent = {} /\ cand = {}) =>
             ret.selected = 0 /\ ret.frames = 0

C25_NoSentinelNoNonFinite ==
  pc = "done" =>
    \A k \in 1..Len(ret) :
      ret[k].value # Num(FillValue) /\ IsFinite(ret[k].value)



\* the hourly result that a cleaned record was made of
ReadingOf(m) == arg[m.location].results[m.datetime \div MinutesPerHour]

C27_CsvAttemptedAfterParquet ==
  (ret.parquet # "pending") ~> (ret.csv # "pending")

C27_Witness ==
  /\ pc = "finished"
  /\ ret.parquet = "failed"
  /\ ret.csv = "written"
  /\ Len(result.rows) = WindowHours



\* the fallback column of a canonical column
SatelliteOf(c) ==
  IF c = "PM2.5" THEN "PM2.5_satellite"
  ELSE IF c = "PM10" THEN "PM10_satellite"
  ELSE IF c = "O3" THEN "O3_satellite"
  ELSE "NO2_satellite"

\* C28: _fill_missing_values never changes a canonical value that is
\* present: after the call the table has the rows and columns it had, a
\* value of PM2.5, PM10, O3 or NO2 that was present is what it was, one
\* that was missing is the row's <variable>_satellite value when that
\* column exists (when the call raised part way: that value or still
\* missing), and every other cell is what it was.
C28_FillKeepsPresentValues ==
  pc # "start" =>
    /\ ret.cols = arg.cols
    /\ Len(ret.rows) = Len(arg.rows)
    /\ \A i \in 1..Len(arg.rows) :
         /\ DOMAIN ret.rows[i] = DOMAIN arg.rows[i]
         /\ \A c \in DOMAIN arg.rows[i] :
              LET before == arg.rows[i][c]
                  after == ret.rows[i][c]
              IN  IF /\ c \in { "PM2.5", "PM10", "O3", "NO2" }
                     /\ IsNa(before)
                     /\ HasCol(arg, SatelliteOf(c))
                  THEN \/ after = arg.rows[i][SatelliteOf(c)]
                       \/ pc = "raised" /\ after = before
                  ELSE after = before

C28_Witness ==
  /\ pc = "done"
  /\ Len(arg.rows) = 2
  /\ HasCol(arg, "PM2.5") /\ HasCol(arg, "PM2.5_satellite")
  /\ arg.rows[1]["PM2.5"] = Num(1)
  /\ arg.rows[1]["PM2.5_satellite"] = Num(2)
  /\ ret.rows[1]["PM2.5"] = Num(1)
  /\ arg.rows[2]["PM2.5"] = NaN
  /\ arg.rows[2]["PM2.5_satellite"] = Num(2)
  /\ ret.rows[2]["PM2.5"] = Num(2)


=============================================================================
